---------------------------- MODULE Spec2Model ----------------------------
(***************************************************************************)
(* Model of the gated-evolution validator                                  *)
(* (src/sandbox/sandbox_validator.py): SandboxValidator.validate_proposal  *)
(* and the helpers it calls, as a state machine over validation calls      *)
(* scheduled on one asyncio event loop; of the dimension model and the     *)
(* bottleneck identifier of src/sandbox/performance_monitor.py; and of     *)
(* MetaCognitionEngine (src/sandbox/meta_cognition.py): reflect_and_propose *)
(* and deploy_approved_proposal over the tracked proposals.                *)
(*                                                                         *)
(* Numbers.  The code computes in binary floating point; the model uses    *)
(* exact rationals <<n, d>> with d > 0.  The measured values the model     *)
(* draws are integers for which the double results of the code compare     *)
(* with 0.15, 0.05 and 0.8 exactly as the rationals do.                    *)
(*                                                                         *)
(* Units of the integer metric values: throughput in tasks/s, cost in      *)
(* cents per 1000 tasks, error_rate in thousandths, latency_p95 in         *)
(* hundredths of a second, memory_peak_mb in MB.  Percentage changes do    *)
(* not depend on the unit; _identify_bottleneck divides by the code's      *)
(* thresholds expressed in the same units.                                 *)
(***************************************************************************)
EXTENDS Integers, Sequences, FiniteSets, TLC

VARIABLES
    pc,                \* per call slot: position inside validate_proposal
    frame,             \* per call slot: arguments and locals of validate_proposal
    current,           \* the call the event loop is running (0: none)
    containers,        \* sandbox containers that exist (created, not removed)
    runlog,            \* per call slot: start/end events of its sandbox runs
    redisMetrics,      \* redis keys sandbox:metrics:{run_id}
    redisValidation,   \* redis keys sandbox:validation:{proposal_id}
    published,         \* messages published on channel sandbox.validations
    execution_history, \* SandboxValidator.execution_history
    effects,           \* per call slot: how often its result was persisted / published
    clock,             \* datetime.now() as a logical clock
    ncalls,            \* validate_proposal calls made so far
    dimensions,        \* PerformanceMonitor.dimensions, in insertion order
    history,           \* PerformanceMonitor.history
    reports,           \* what identify_bottleneck returned, call after call,
                       \* since the readings last changed
    config,            \* MetaCognitionEngine.config
    proposals,         \* MetaCognitionEngine.proposals: the tracked proposals
    deployed_optimizations, \* MetaCognitionEngine.deployed_optimizations
    reflection_history,     \* MetaCognitionEngine.reflection_history
    reflection,        \* arguments and locals of reflect_and_propose
    deployment,        \* how the last deploy_approved_proposal call ended
    now,               \* the wall clock in whole seconds, as strftime prints it
    added,             \* every proposal reflect_and_propose has added to the
                       \* tracked list, in the order added
    rejected           \* the proposals the sandbox has rejected

validatorVars ==
    <<pc, frame, current, containers, runlog, redisMetrics, redisValidation,
      published, execution_history, effects, clock, ncalls>>

monitorVars == <<dimensions, history, reports>>

engineVars ==
    <<config, proposals, deployed_optimizations, reflection_history,
      reflection, deployment, now, added, rejected>>

vars == <<validatorVars, monitorVars, engineVars>>

-----------------------------------------------------------------------------
(* Bounds of the model *)

NumTasks == 2
MaxCalls == 3
MaxStored == 102
MaxSurvivors == 1
MaxRecords == 1
MaxReports == 2
MaxOverlapping == 3
MaxReflects == 2
MaxDeploys == 1
MaxSeconds == 1

Tasks == 1..NumTasks

-----------------------------------------------------------------------------
(* Exact rational arithmetic *)

RECURSIVE Gcd(_, _)
Gcd(a, b) == IF b = 0 THEN a ELSE Gcd(b, a % b)

Abs(x) == IF x < 0 THEN -x ELSE x

Norm(q) ==
    LET g == Gcd(Abs(q[1]), q[2])
    IN  IF q[1] = 0 THEN <<0, 1>> ELSE <<q[1] \div g, q[2] \div g>>

Frac(n, d) == Norm(<<n, d>>)

RLe(a, b) == a[1] * b[2] <= b[1] * a[2]
RLt(a, b) == a[1] * b[2] < b[1] * a[2]
RGe(a, b) == RLe(b, a)
RGt(a, b) == RLt(b, a)
REq(a, b) == a[1] * b[2] = b[1] * a[2]
RAdd(a, b) == Norm(<<a[1] * b[2] + b[1] * a[2], a[2] * b[2]>>)
RSub(a, b) == Norm(<<a[1] * b[2] - b[1] * a[2], a[2] * b[2]>>)
RMul(a, b) == Norm(<<a[1] * b[1], a[2] * b[2]>>)
RDivInt(a, k) == Norm(<<a[1], a[2] * k>>)
RAbs(a) == <<Abs(a[1]), a[2]>>
RMin(a, b) == IF RLe(a, b) THEN a ELSE b
RMax(a, b) == IF RGe(a, b) THEN a ELSE b
Zero == <<0, 1>>
One == <<1, 1>>

-----------------------------------------------------------------------------
(* PerformanceMetrics and the dimensions *)

\* The dimensions _calculate_changes tracks, in its order.
Dimensions == <<"throughput", "cost", "error_rate", "latency", "memory">>

DimensionSet == {Dimensions[i] : i \in 1..Len(Dimensions)}

\* All values of PerformanceDimension.
PerformanceDimension ==
    {"throughput", "cost", "error_rate", "latency", "accuracy", "memory",
     "api_rate_limit"}

HigherIsBetter(dim) == dim = "throughput"

\* The accessor lambdas of _calculate_changes.
Accessor(m, dim) ==
    CASE dim = "throughput" -> m.throughput
      [] dim = "cost"       -> m.cost
      [] dim = "error_rate" -> m.error_rate
      [] dim = "latency"    -> m.latency_p95
      [] dim = "memory"     -> m.memory_peak_mb

Metrics(t, c, e, l, mem) ==
    [throughput |-> t, cost |-> c, error_rate |-> e, latency_p95 |-> l,
     memory_peak_mb |-> mem]

\* The fallback of _parse_metrics_output: every measured field 0.
ZeroMetrics == Metrics(0, 0, 0, 0, 0)

-----------------------------------------------------------------------------
(* _parse_metrics_output *)

\* What a container can print, by the shape json.loads gives it:
\*   "metrics"                 {"metrics": {...}}, the fields in .m
\*   "text"                    not JSON (also the empty output)
\*   "object_without_metrics"  a JSON object with no "metrics" entry
\*   "list"                    a JSON list that does not hold the string "metrics"
\*   "number"                  a JSON number
\*   "metrics_not_object"      {"metrics": 5}
OutputKinds ==
    {"metrics", "text", "object_without_metrics", "list", "number",
     "metrics_not_object"}

Output(kind, m) == [kind |-> kind, m |-> m]

\* _parse_metrics_output(output, duration): the metrics returned, or the
\* exception that leaves the function.  Only json.JSONDecodeError is caught;
\* `"metrics" in data` on a number raises TypeError, m.get on a non-object
\* raises AttributeError.
ParseMetricsOutput(out) ==
    CASE out.kind = "metrics" -> [raised |-> "none", metrics |-> out.m]
      [] out.kind = "text" -> [raised |-> "none", metrics |-> ZeroMetrics]
      [] out.kind = "object_without_metrics" ->
            [raised |-> "none", metrics |-> ZeroMetrics]
      [] out.kind = "list" -> [raised |-> "none", metrics |-> ZeroMetrics]
      [] out.kind = "number" -> [raised |-> "TypeError", metrics |-> ZeroMetrics]
      [] out.kind = "metrics_not_object" ->
            [raised |-> "AttributeError", metrics |-> ZeroMetrics]

-----------------------------------------------------------------------------
(* _identify_bottleneck *)

\* The keys of the utilizations dict, in insertion order.
UtilizationOrder == <<"throughput", "error_rate", "latency", "cost", "memory">>

Utilization(m, dim) ==
    CASE dim = "throughput" -> RSub(One, RMin(Frac(m.throughput, 100), One))
      [] dim = "error_rate" -> Frac(m.error_rate, 1000)
      [] dim = "latency"    -> RMin(Frac(m.latency_p95, 500), One)
      [] dim = "cost"       -> RMin(Frac(m.cost, 100), One)
      [] dim = "memory"     -> RMin(Frac(m.memory_peak_mb, 512), One)

\* max(utilizations, key=utilizations.get): the first key, in insertion
\* order, whose value no other key exceeds.
IdentifyBottleneck(m) ==
    LET best(i) == \A j \in 1..Len(UtilizationOrder) :
                      RLe(Utilization(m, UtilizationOrder[j]),
                          Utilization(m, UtilizationOrder[i]))
        first == CHOOSE i \in 1..Len(UtilizationOrder) :
                    best(i) /\ \A j \in 1..(i - 1) : ~best(j)
    IN  UtilizationOrder[first]

-----------------------------------------------------------------------------
(* _calculate_changes *)

PctChange(base_val, prop_val) ==
    IF base_val = 0 THEN Zero ELSE Frac(prop_val - base_val, base_val)

DimPctChange(baseline, proposed, dim) ==
    PctChange(Accessor(baseline, dim), Accessor(proposed, dim))

\* The branch of the loop body that files the dimension under improvements.
IsImprovement(dim, pct_change) ==
    IF HigherIsBetter(dim) THEN pct_change[1] > 0 ELSE pct_change[1] < 0

\* The value filed under regressions: abs(pct_change) for a higher-is-better
\* dimension, pct_change itself otherwise.
RegressionValue(dim, pct_change) ==
    IF HigherIsBetter(dim) THEN RAbs(pct_change) ELSE pct_change

\* A loop body that skips a dimension whose value did not change.
MutCalculateChanges(baseline, proposed) ==
    LET pct(dim) == DimPctChange(baseline, proposed, dim)
        imp == {dim \in DimensionSet : IsImprovement(dim, pct(dim))}
        reg == {dim \in DimensionSet \ imp : pct(dim)[1] # 0}
    IN  [improvement |-> [dim \in imp |-> RAbs(pct(dim))],
         regressions |-> [dim \in reg |-> RegressionValue(dim, pct(dim))]]

CalculateChanges(baseline, proposed) ==
    LET pct(dim) == DimPctChange(baseline, proposed, dim)
        imp == {dim \in DimensionSet : IsImprovement(dim, pct(dim))}
    IN  [improvement |-> [dim \in imp |-> RAbs(pct(dim))],
         regressions |-> [dim \in DimensionSet \ imp |->
                             RegressionValue(dim, pct(dim))]]

\* A default of 1 where the code has improvement.get(limiting_factor, 0).
MutGet(map, key, default) == IF key \in DOMAIN map THEN map[key] ELSE One

\* dict.get(key, default)
Get(map, key, default) == IF key \in DOMAIN map THEN map[key] ELSE default

-----------------------------------------------------------------------------
(* _test_scale: the linearity computed from the three measured throughputs *)

\* A loop that runs the 10x test before the 5x test.
MutScaleMultipliers == <<1, 10, 5>>

\* The multipliers of the loop in _test_scale.
SCALE_MULTIPLIERS == <<1, 5, 10>>

ScaleRunId(multiplier) ==
    CASE multiplier = 1  -> "scale-1x"
      [] multiplier = 5  -> "scale-5x"
      [] multiplier = 10 -> "scale-10x"

\* actual / baseline_throughput: the multiplier is left out.
MutLinearityAt(baseline_throughput, actual, multiplier) ==
    LET expected == baseline_throughput
    IN  IF expected > 0 THEN Frac(actual, expected) ELSE Zero

\* actual / expected if expected > 0 else 0
LinearityAt(baseline_throughput, actual, multiplier) ==
    LET expected == baseline_throughput * multiplier
    IN  IF expected > 0 THEN Frac(actual, expected) ELSE Zero

\* results: the throughput measured at run 1 (1x), 2 (5x) and 3 (10x).
ScaleLinearity(results) ==
    LET linearity_5x == LinearityAt(results[1], results[2], 5)
        linearity_10x == LinearityAt(results[1], results[3], 10)
    IN  RDivInt(RAdd(linearity_5x, linearity_10x), 2)

-----------------------------------------------------------------------------
(* The decision gate, the confidence and the reason of validate_proposal *)

IMPROVEMENT_THRESHOLD == <<15, 100>>
REGRESSION_TOLERANCE == <<5, 100>>
LINEARITY_THRESHOLD == <<8, 10>>

\* A threshold of 0.5 where the code has 0.15.
MutBottleneckImproved(improvement, limiting_factor) ==
    RGe(Get(improvement, limiting_factor, Zero), <<1, 2>>)

BottleneckImproved(improvement, limiting_factor) ==
    RGe(Get(improvement, limiting_factor, Zero), IMPROVEMENT_THRESHOLD)

\* any() where the code has all().
MutNoSignificantRegressions(regressions) ==
    \E dim \in DOMAIN regressions : RLe(regressions[dim], REGRESSION_TOLERANCE)

NoSignificantRegressions(regressions) ==
    \A dim \in DOMAIN regressions : RLe(regressions[dim], REGRESSION_TOLERANCE)

\* A threshold of 0.5 where the code has 0.8.
MutScalesLinearly(linearity) == RGt(linearity, <<1, 2>>)

ScalesLinearly(linearity) == RGt(linearity, LINEARITY_THRESHOLD)

Approved(improvement, regressions, limiting_factor, linearity) ==
    /\ BottleneckImproved(improvement, limiting_factor)
    /\ NoSignificantRegressions(regressions)
    /\ ScalesLinearly(linearity)

\* The condition the reason string cites ("none": reason is None).
Reason(improvement, regressions, limiting_factor, linearity) ==
    IF ~BottleneckImproved(improvement, limiting_factor) THEN "bottleneck"
    ELSE IF ~NoSignificantRegressions(regressions) THEN "regression"
    ELSE IF ~ScalesLinearly(linearity) THEN "scale"
    ELSE "none"

RECURSIVE SumValues(_, _)
SumValues(map, keys) ==
    IF keys = {} THEN Zero
    ELSE LET k == CHOOSE x \in keys : TRUE
         IN  RAdd(map[k], SumValues(map, keys \ {k}))

RECURSIVE MaxValue(_, _)
MaxValue(map, keys) ==
    LET k == CHOOSE x \in keys : TRUE
    IN  IF keys = {k} THEN map[k] ELSE RMax(map[k], MaxValue(map, keys \ {k}))

\* _calculate_confidence without the final min(max(confidence, 0.0), 1.0).
MutCalculateConfidence(improvements, regressions, linearity) ==
    LET c0 == <<1, 2>>
        c1 == IF DOMAIN improvements # {}
              THEN LET avg_improvement ==
                          RDivInt(SumValues(improvements, DOMAIN improvements),
                                  Cardinality(DOMAIN improvements))
                   IN  RAdd(c0, RMin(RMul(avg_improvement, <<3, 10>>), <<3, 10>>))
              ELSE c0
        c2 == IF DOMAIN regressions # {}
              THEN LET max_regression == MaxValue(regressions, DOMAIN regressions)
                   IN  RSub(c1, RMin(RMul(max_regression, <<1, 2>>), <<3, 10>>))
              ELSE c1
    IN  RAdd(c2, RMul(linearity, <<2, 10>>))

CalculateConfidence(improvements, regressions, linearity) ==
    LET c0 == <<1, 2>>
        c1 == IF DOMAIN improvements # {}
              THEN LET avg_improvement ==
                          RDivInt(SumValues(improvements, DOMAIN improvements),
                                  Cardinality(DOMAIN improvements))
                   IN  RAdd(c0, RMin(RMul(avg_improvement, <<3, 10>>), <<3, 10>>))
              ELSE c0
        c2 == IF DOMAIN regressions # {}
              THEN LET max_regression == MaxValue(regressions, DOMAIN regressions)
                   IN  RSub(c1, RMin(RMul(max_regression, <<1, 2>>), <<3, 10>>))
              ELSE c1
        c3 == RAdd(c2, RMul(linearity, <<2, 10>>))
    IN  RMin(RMax(c3, Zero), One)

-----------------------------------------------------------------------------
(* performance_monitor.py: DimensionConfig and PerformanceMonitor *)

\* Optional[float]: None is the empty tuple, the value v is <<v>>.
None == <<>>
Some(v) == <<v>>

\* `if self.target_value`, `if self.max_value`: None and 0 are false.
Truthy(opt) == opt # None /\ opt[1] # 0

DimensionType ==
    {"throughput", "latency", "cost", "error_rate", "accuracy", "memory",
     "api_rate_limit", "token_usage"}

DimensionConfig(name, dim_type, current_value, target_value, max_value) ==
    [name |-> name, dim_type |-> dim_type, current_value |-> current_value,
     target_value |-> target_value, max_value |-> max_value]

\* DimensionConfig.utilization
DimensionConfigUtilization(c) ==
    IF c.dim_type \in {"throughput", "accuracy"}
    THEN IF Truthy(c.target_value) /\ c.current_value # 0
         THEN RSub(One, RMin(Frac(c.current_value, c.target_value[1]), One))
         ELSE IF Truthy(c.max_value)
         THEN Frac(c.current_value, c.max_value[1])
         ELSE <<1, 2>>
    ELSE IF c.dim_type \in {"latency", "cost", "error_rate", "memory",
                            "api_rate_limit"}
    THEN IF Truthy(c.max_value)
         THEN RMin(Frac(c.current_value, c.max_value[1]), One)
         ELSE IF Truthy(c.target_value)
         THEN Frac(c.current_value - c.target_value[1], c.target_value[1])
         ELSE <<1, 2>>
    ELSE IF c.dim_type = "token_usage"
    THEN IF Truthy(c.max_value)
         THEN Frac(c.current_value, c.max_value[1])
         ELSE <<1, 2>>
    ELSE <<1, 2>>

\* The default dimensions of PerformanceMonitor.__init__, in insertion
\* order.  Integer units: cost in cents, error_rate in thousandths, accuracy
\* and api_rate_limit in hundredths.
DefaultDimensions ==
    <<DimensionConfig("throughput", "throughput", 50, Some(1000), None),
      DimensionConfig("latency", "latency", 5, None, Some(10)),
      DimensionConfig("cost", "cost", 5, None, Some(100)),
      DimensionConfig("error_rate", "error_rate", 20, None, Some(50)),
      DimensionConfig("accuracy", "accuracy", 85, Some(95), None),
      DimensionConfig("api_rate_limit", "api_rate_limit", 0, None, Some(90)),
      DimensionConfig("token_usage", "token_usage", 0, None, Some(100000)),
      DimensionConfig("memory", "memory", 256, None, Some(512))>>

\* PerformanceMonitor(history_size=1000)
history_size == 1000

\* deque(maxlen=history_size).append
DequeAppend(deque, x) ==
    IF Len(deque) = history_size THEN Append(Tail(deque), x)
    ELSE Append(deque, x)

\* max(...) that keeps the last of several maximal entries.
MutMonitorIdentifyBottleneck(dims) ==
    LET util(i) == DimensionConfigUtilization(dims[i])
        best(i) == \A j \in 1..Len(dims) : RLe(util(j), util(i))
        last == CHOOSE i \in 1..Len(dims) :
                    best(i) /\ \A j \in (i + 1)..Len(dims) : ~best(j)
    IN  [bottleneck |-> dims[last].name,
         severity |-> util(last),
         current_value |-> dims[last].current_value,
         target_value |-> dims[last].target_value,
         max_value |-> dims[last].max_value]

\* PerformanceMonitor.identify_bottleneck: max(utilizations.items(), key=...)
\* returns the first entry, in insertion order, that no entry exceeds.
MonitorIdentifyBottleneck(dims) ==
    LET util(i) == DimensionConfigUtilization(dims[i])
        best(i) == \A j \in 1..Len(dims) : RLe(util(j), util(i))
        first == CHOOSE i \in 1..Len(dims) :
                    best(i) /\ \A j \in 1..(i - 1) : ~best(j)
    IN  [bottleneck |-> dims[first].name,
         severity |-> util(first),
         current_value |-> dims[first].current_value,
         target_value |-> dims[first].target_value,
         max_value |-> dims[first].max_value]

-----------------------------------------------------------------------------
(* meta_cognition.py: OptimizationProposal, the proposal generators and the *)
(* lookup of deploy_approved_proposal                                       *)

\* The config MetaCognitionEngine.__init__ falls back to.  Only
\* max_pending_proposals is read by the code.
DefaultConfig == [max_pending_proposals |-> 10]

\* A workflow is a dict; the model keeps its top-level parameters, each
\* None or a value: parallelism a number, model a name, the others
\* "configured" for a non-empty settings dict.
\* _extract_parameter(workflow, param_name, default): `search(workflow) or
\* default`, as an Optional (the workflows of the model hold no 0 and no
\* empty value).
ExtractParameter(workflow, param_name, default) ==
    IF param_name \in DOMAIN workflow /\ workflow[param_name] # None
    THEN workflow[param_name]
    ELSE default

\* _apply_parameter(workflow, param_name, param_value): a copy in which the
\* parameter is set, unless the workflow has a top-level key of that name.
ApplyParameter(workflow, param_name, param_value) ==
    IF param_name \in DOMAIN workflow
    THEN workflow
    ELSE (param_name :> Some(param_value)) @@ workflow

\* `"sonnet" in model.lower()`
IsSonnet(model) == model \in {"sonnet-4", "claude-sonnet-4", "Sonnet"}

\* f"{prefix}_{datetime.now().strftime('%Y%m%d%H%M%S')}": the prefix and the
\* wall clock to the second.
ProposalId(prefix, second) == prefix \o "_" \o ToString(second)

\* OptimizationProposal(...); created_at is left out, validation_result
\* starts as None.
OptimizationProposal(id, optimization_type, target_bottleneck, expected_improvement, workflow_modification, confidence) ==
    [id |-> id, optimization_type |-> optimization_type,
     target_bottleneck |-> target_bottleneck,
     expected_improvement |-> expected_improvement,
     workflow_modification |-> workflow_modification,
     confidence |-> confidence,
     validation_result |-> None]

Min(a, b) == IF a <= b THEN a ELSE b

\* _propose_throughput_optimizations
ProposeThroughputOptimizations(workflow, second) ==
    LET current_parallelism ==
            ExtractParameter(workflow, "parallelism", Some(1))[1]
        new_parallelism == Min(current_parallelism * 2, 8)
    IN  (IF current_parallelism < 4
         THEN <<OptimizationProposal(
                    ProposalId("para", second), "parallelism", "throughput",
                    <<30, 100>>,
                    ApplyParameter(workflow, "parallelism", new_parallelism),
                    <<85, 100>>)>>
         ELSE <<>>)
        \o
        (IF ExtractParameter(workflow, "batching", None) = None
         THEN <<OptimizationProposal(
                    ProposalId("batch", second), "batching", "throughput",
                    <<25, 100>>,
                    ApplyParameter(workflow, "batching", "configured"),
                    <<75, 100>>)>>
         ELSE <<>>)

\* _propose_latency_optimizations
ProposeLatencyOptimizations(workflow, second) ==
    LET model == ExtractParameter(workflow, "model", None)
    IN  (IF ExtractParameter(workflow, "caching", None) = None
         THEN <<OptimizationProposal(
                    ProposalId("cache", second), "caching", "latency",
                    <<40, 100>>,
                    ApplyParameter(workflow, "caching", "configured"),
                    <<90, 100>>)>>
         ELSE <<>>)
        \o
        (IF model # None /\ IsSonnet(model[1])
         THEN <<OptimizationProposal(
                    ProposalId("model", second), "model_switch", "latency",
                    <<35, 100>>,
                    ApplyParameter(workflow, "model", "haiku"),
                    <<70, 100>>)>>
         ELSE <<>>)

\* _propose_api_routing_optimizations
ProposeApiRoutingOptimizations(workflow, second) ==
    IF ExtractParameter(workflow, "retry", None) = None
    THEN <<OptimizationProposal(
               ProposalId("retry", second), "retry_logic", "api_rate_limit",
               <<50, 100>>,
               ApplyParameter(workflow, "retry", "configured"),
               <<88, 100>>)>>
    ELSE <<>>

\* _propose_cost_optimizations
ProposeCostOptimizations(workflow, second) ==
    <<OptimizationProposal(
          ProposalId("context", second), "context_optimization", "cost",
          <<20, 100>>,
          ApplyParameter(workflow, "context", "configured"),
          <<82, 100>>)>>

\* _propose_reliability_optimizations
ProposeReliabilityOptimizations(workflow, second) ==
    IF ExtractParameter(workflow, "validation", None) = None
    THEN <<OptimizationProposal(
               ProposalId("valid", second), "workflow_restructuring",
               "error_rate", <<45, 100>>,
               ApplyParameter(workflow, "validation", "configured"),
               <<92, 100>>)>>
    ELSE <<>>

\* _generate_proposals(current_workflow, bottleneck), called in the given
\* second.
GenerateProposals(current_workflow, bottleneck, second) ==
    CASE bottleneck.bottleneck = "throughput" ->
            ProposeThroughputOptimizations(current_workflow, second)
      [] bottleneck.bottleneck = "latency" ->
            ProposeLatencyOptimizations(current_workflow, second)
      [] bottleneck.bottleneck = "api_rate_limit" ->
            ProposeApiRoutingOptimizations(current_workflow, second)
      [] bottleneck.bottleneck = "cost" ->
            ProposeCostOptimizations(current_workflow, second)
      [] bottleneck.bottleneck = "error_rate" ->
            ProposeReliabilityOptimizations(current_workflow, second)
      [] OTHER -> <<>>

\* `bottleneck['severity'] < 0.3`
SEVERITY_THRESHOLD == <<3, 10>>

\* tracked[:n]: the oldest proposals instead of the latest.
MutKeepPending(tracked, max_pending_proposals) ==
    SubSeq(tracked, 1, Min(max_pending_proposals, Len(tracked)))

\* self.proposals[-max_pending_proposals:].  -0 is 0: with a bound of 0 the
\* slice is the whole list.
KeepPending(tracked, max_pending_proposals) ==
    IF max_pending_proposals = 0 \/ max_pending_proposals >= Len(tracked)
    THEN tracked
    ELSE SubSeq(tracked, Len(tracked) - max_pending_proposals + 1,
                Len(tracked))

\* `proposal.validation_result and proposal.validation_result.approved`
IsApproved(proposal) ==
    /\ proposal.validation_result # None
    /\ proposal.validation_result[1].approved

\* deploy_approved_proposal(proposal_id) up to the append: the first tracked
\* proposal with that id, the ValueError raised and the id its message
\* names, or the deployment dict (description and deployed_at left out).
DeployOutcome(tracked, proposal_id) ==
    LET matches == {i \in DOMAIN tracked : tracked[i].id = proposal_id}
        first == CHOOSE i \in matches : \A j \in matches : i <= j
    IN  IF matches = {}
        THEN [raised |-> "Proposal not found", named |-> proposal_id]
        ELSE IF ~IsApproved(tracked[first])
        THEN [raised |-> "Proposal not approved", named |-> proposal_id]
        ELSE [raised |-> "none",
              deployment |->
                  [id |-> tracked[first].id,
                   type |-> tracked[first].optimization_type,
                   modification |-> tracked[first].workflow_modification,
                   expected_improvement |->
                       tracked[first].expected_improvement]]

\* reflect_and_propose is not running; calls counts the calls made so far.
NoReflection ==
    [pc |-> "idle", calls |-> 0, current_workflow |-> <<>>,
     test_scenarios |-> FALSE, bottleneck |-> <<>>, generated |-> <<>>,
     k |-> 0, validated |-> <<>>]

\* No deploy_approved_proposal call has been made.
NoDeployment == [calls |-> 0, proposal_id |-> "", raised |-> "none", named |-> ""]

\* MetaCognitionEngine(config=cfg)
InitEngine(cfg) ==
    /\ config = cfg
    /\ proposals = <<>>
    /\ deployed_optimizations = <<>>
    /\ reflection_history = <<>>
    /\ reflection = NoReflection
    /\ deployment = NoDeployment
    /\ now = 0
    /\ added = <<>>
    /\ rejected = {}

-----------------------------------------------------------------------------
(* State of one validate_proposal call *)

\* limiting_factor = None
NoFactor == "None"

EmptyMap == <<>>

NoResult ==
    [proposal_id |-> "", approved |-> FALSE, improvement |-> EmptyMap,
     regressions |-> EmptyMap,
     metrics |-> [baseline |-> ZeroMetrics, proposed |-> ZeroMetrics],
     confidence |-> Zero, reason |-> "none", timestamp |-> 0]

\* The frame of a call that has not started.
NewFrame ==
    [call |-> 0, proposal_id |-> "", limiting_factor |-> NoFactor,
     stage |-> "baseline", i |-> 1,
     baseline_metrics |-> ZeroMetrics, proposed_metrics |-> ZeroMetrics,
     improvement |-> EmptyMap, regressions |-> EmptyMap,
     results |-> <<>>, linearity |-> Zero, decided |-> FALSE,
     result |-> NoResult, error |-> "none"]

NoEffects == [persisted |-> 0, published |-> 0]

\* The run_id _run_sandbox is called with at the frame's position.
RunIdOf(f) ==
    CASE f.stage = "baseline" -> "baseline"
      [] f.stage = "proposed" -> "proposed"
      [] f.stage = "scale"    -> ScaleRunId(SCALE_MULTIPLIERS[f.i])

\* The container docker_client.containers.run creates for the frame's run.
ContainerOf(f) == [call |-> f.call, run_id |-> RunIdOf(f)]

\* SandboxValidator()
InitValidator ==
    /\ pc = [p \in Tasks |-> "idle"]
    /\ frame = [p \in Tasks |-> NewFrame]
    /\ current = 0
    /\ containers = {}
    /\ runlog = [p \in Tasks |-> <<>>]
    /\ redisMetrics = EmptyMap
    /\ redisValidation = EmptyMap
    /\ published = <<>>
    /\ execution_history = <<>>
    /\ effects = [p \in Tasks |-> NoEffects]
    /\ clock = 1
    /\ ncalls = 0

\* SandboxValidator(), PerformanceMonitor() and MetaCognitionEngine()
Init ==
    /\ InitValidator
    /\ dimensions = DefaultDimensions
    /\ history = <<>>
    /\ reports = <<>>
    /\ InitEngine(DefaultConfig)

-----------------------------------------------------------------------------
(* validate_proposal, step by step *)

\* validate_proposal is called and its coroutine starts running: the
\* event loop runs one coroutine at a time.
Call(p, proposal_id, limiting_factor) ==
    /\ pc[p] = "idle"
    /\ current = 0
    /\ ncalls' = ncalls + 1
    /\ frame' = [frame EXCEPT ![p] =
                    [NewFrame EXCEPT !.call = ncalls + 1,
                                     !.proposal_id = proposal_id,
                                     !.limiting_factor = limiting_factor]]
    /\ pc' = [pc EXCEPT ![p] = "run_start"]
    /\ current' = p
    /\ runlog' = [runlog EXCEPT ![p] = <<>>]
    /\ effects' = [effects EXCEPT ![p] = NoEffects]
    /\ UNCHANGED <<monitorVars, engineVars, containers, redisMetrics, redisValidation, published,
                   execution_history, clock>>

\* _run_sandbox up to the blocking docker_client.containers.run: the
\* container is created and started.
RunStart(p) ==
    /\ pc[p] = "run_start"
    /\ current = p
    /\ containers' = containers \cup {ContainerOf(frame[p])}
    /\ runlog' = [runlog EXCEPT ![p] = Append(@, <<"start", RunIdOf(frame[p])>>)]
    /\ pc' = [pc EXCEPT ![p] = "running"]
    /\ UNCHANGED <<monitorVars, engineVars, frame, current, redisMetrics, redisValidation, published,
                   execution_history, effects, clock, ncalls>>

\* An exception leaves _run_sandbox and, uncaught, validate_proposal.
Raise(p, error) ==
    /\ pc' = [pc EXCEPT ![p] = "raised"]
    /\ frame' = [frame EXCEPT ![p].error = error]
    /\ current' = 0
    /\ runlog' = [runlog EXCEPT ![p] = Append(@, <<"end", RunIdOf(frame[p])>>)]
    /\ UNCHANGED <<monitorVars, engineVars, redisMetrics, redisValidation, published, execution_history,
                   effects, clock, ncalls>>

\* Step 2 that runs the baseline again after step 1 has run it to identify
\* the bottleneck (`if baseline_metrics is None` left out).
MutContinue(p, m) ==
    LET f == frame[p] IN
    /\ runlog' = [runlog EXCEPT ![p] = Append(@, <<"end", RunIdOf(f)>>)]
    /\ redisMetrics' = (RunIdOf(f) :> m) @@ redisMetrics
    /\ CASE f.stage = "baseline" ->
              /\ frame' = [frame EXCEPT ![p] =
                    [f EXCEPT !.baseline_metrics = m,
                              !.limiting_factor =
                                  IF f.limiting_factor = NoFactor
                                  THEN IdentifyBottleneck(m)
                                  ELSE f.limiting_factor,
                              !.stage =
                                  IF f.limiting_factor = NoFactor
                                  THEN "baseline"
                                  ELSE "proposed"]]
              /\ pc' = [pc EXCEPT ![p] = "run_start"]
              /\ current' = current
         [] f.stage = "proposed" ->
              /\ frame' = [frame EXCEPT ![p] =
                    [f EXCEPT !.proposed_metrics = m,
                              !.improvement =
                                  CalculateChanges(f.baseline_metrics, m).improvement,
                              !.regressions =
                                  CalculateChanges(f.baseline_metrics, m).regressions,
                              !.stage = "scale",
                              !.i = 1]]
              /\ pc' = [pc EXCEPT ![p] = "run_start"]
              /\ current' = current
         [] f.stage = "scale" ->
              /\ frame' = [frame EXCEPT ![p].results = Append(@, m.throughput)]
              /\ pc' = [pc EXCEPT ![p] = "sleeping"]
              /\ current' = 0
    /\ UNCHANGED <<monitorVars, engineVars, redisValidation, published, execution_history, effects,
                   clock, ncalls>>

\* validate_proposal after _run_sandbox returned metrics m for the frame's
\* stage: steps 1-2 (baseline, and the bottleneck when none was given),
\* steps 3-4 (proposed, _calculate_changes), or one pass of the loop of
\* _test_scale up to its asyncio.sleep.
Continue(p, m) ==
    LET f == frame[p] IN
    /\ runlog' = [runlog EXCEPT ![p] = Append(@, <<"end", RunIdOf(f)>>)]
    /\ redisMetrics' = (RunIdOf(f) :> m) @@ redisMetrics
    /\ CASE f.stage = "baseline" ->
              /\ frame' = [frame EXCEPT ![p] =
                    [f EXCEPT !.baseline_metrics = m,
                              !.limiting_factor =
                                  IF f.limiting_factor = NoFactor
                                  THEN IdentifyBottleneck(m)
                                  ELSE f.limiting_factor,
                              !.stage = "proposed"]]
              /\ pc' = [pc EXCEPT ![p] = "run_start"]
              /\ current' = current
         [] f.stage = "proposed" ->
              /\ frame' = [frame EXCEPT ![p] =
                    [f EXCEPT !.proposed_metrics = m,
                              !.improvement =
                                  CalculateChanges(f.baseline_metrics, m).improvement,
                              !.regressions =
                                  CalculateChanges(f.baseline_metrics, m).regressions,
                              !.stage = "scale",
                              !.i = 1]]
              /\ pc' = [pc EXCEPT ![p] = "run_start"]
              /\ current' = current
         [] f.stage = "scale" ->
              /\ frame' = [frame EXCEPT ![p].results = Append(@, m.throughput)]
              /\ pc' = [pc EXCEPT ![p] = "sleeping"]
              /\ current' = 0
    /\ UNCHANGED <<monitorVars, engineVars, redisValidation, published, execution_history, effects,
                   clock, ncalls>>

\* _run_sandbox from the output on: _parse_metrics_output, redis.setex,
\* return.
AfterOutput(p, out) ==
    LET parsed == ParseMetricsOutput(out)
    IN  IF parsed.raised # "none"
        THEN Raise(p, parsed.raised)
        ELSE Continue(p, parsed.metrics)

\* containers.run returns the output: the container exited with status 0 and,
\* remove=True, has been removed.
RunCompletes(p, out) ==
    /\ pc[p] = "running"
    /\ current = p
    /\ containers' = containers \ {ContainerOf(frame[p])}
    /\ AfterOutput(p, out)

\* containers.run raises ContainerError: the handler reads
\* e.container.logs().  The logs of a container can be read only while the
\* container exists: if it has been removed, logs() raises NotFound; if it
\* still exists, the handler reads the partial output and nothing removes
\* the container afterwards.
RunContainerError(p, removed, out) ==
    /\ pc[p] = "running"
    /\ current = p
    /\ IF removed
       THEN /\ containers' = containers \ {ContainerOf(frame[p])}
            /\ Raise(p, "NotFound")
       ELSE /\ containers' = containers
            /\ AfterOutput(p, out)

\* containers.run raises another exception (docker APIError, a timeout of
\* the connection to the daemon): no handler, the container may still exist.
RunApiError(p, removed) ==
    /\ pc[p] = "running"
    /\ current = p
    /\ containers' = IF removed THEN containers \ {ContainerOf(frame[p])}
                     ELSE containers
    /\ Raise(p, "APIError")

\* A loop over the multipliers that stops after its first pass.
MutWake(p) ==
    /\ pc[p] = "sleeping"
    /\ current = 0
    /\ current' = p
    /\ frame' = frame
    /\ pc' = [pc EXCEPT ![p] = "deciding"]
    /\ UNCHANGED <<monitorVars, engineVars, containers, runlog, redisMetrics, redisValidation, published,
                   execution_history, effects, clock, ncalls>>

\* asyncio.sleep(2) of _test_scale is over and the event loop resumes the
\* coroutine: the next pass of the loop, or the code after it.
Wake(p) ==
    /\ pc[p] = "sleeping"
    /\ current = 0
    /\ current' = p
    /\ IF frame[p].i < Len(SCALE_MULTIPLIERS)
       THEN /\ frame' = [frame EXCEPT ![p].i = @ + 1]
            /\ pc' = [pc EXCEPT ![p] = "run_start"]
       ELSE /\ frame' = frame
            /\ pc' = [pc EXCEPT ![p] = "deciding"]
    /\ UNCHANGED <<monitorVars, engineVars, containers, runlog, redisMetrics, redisValidation, published,
                   execution_history, effects, clock, ncalls>>

\* The linearity of _test_scale, the decision gate, the confidence, the
\* reason and the ValidationResult.
Decide(p) ==
    LET f == frame[p]
        linearity == ScaleLinearity(f.results)
        result ==
            [proposal_id |-> f.proposal_id,
             approved |-> Approved(f.improvement, f.regressions,
                                   f.limiting_factor, linearity),
             improvement |-> f.improvement,
             regressions |-> f.regressions,
             metrics |-> [baseline |-> f.baseline_metrics,
                          proposed |-> f.proposed_metrics],
             confidence |-> CalculateConfidence(f.improvement, f.regressions,
                                                linearity),
             reason |-> Reason(f.improvement, f.regressions,
                               f.limiting_factor, linearity),
             timestamp |-> clock]
    IN
    /\ pc[p] = "deciding"
    /\ current = p
    /\ frame' = [frame EXCEPT ![p] =
                    [f EXCEPT !.linearity = linearity, !.decided = TRUE,
                              !.result = result]]
    /\ clock' = clock + 1
    /\ pc' = [pc EXCEPT ![p] = "storing"]
    /\ UNCHANGED <<monitorVars, engineVars, current, containers, runlog, redisMetrics, redisValidation,
                   published, execution_history, effects, ncalls>>

\* "Keep last 100 results"
HISTORY_LIMIT == 100

\* execution_history[:HISTORY_LIMIT], the oldest results instead of the latest.
MutKeepLast(results) ==
    IF Len(results) > HISTORY_LIMIT
    THEN SubSeq(results, 1, HISTORY_LIMIT)
    ELSE results

\* execution_history[-HISTORY_LIMIT:]
KeepLast(results) ==
    IF Len(results) > HISTORY_LIMIT
    THEN SubSeq(results, Len(results) - HISTORY_LIMIT + 1, Len(results))
    ELSE results

\* A _store_result that publishes the result a second time.
MutStoreResult(p) ==
    LET result == frame[p].result IN
    /\ pc[p] = "storing"
    /\ current = p
    /\ execution_history' = KeepLast(Append(execution_history, result))
    /\ redisValidation' = (result.proposal_id :> result) @@ redisValidation
    /\ published' = Append(Append(published, result), result)
    /\ effects' = [effects EXCEPT ![p] =
                      [persisted |-> @.persisted + 1,
                       published |-> @.published + 2]]
    /\ pc' = [pc EXCEPT ![p] = "done"]
    /\ current' = 0
    /\ UNCHANGED <<monitorVars, engineVars, frame, containers, runlog, redisMetrics, clock, ncalls>>

\* _store_result, then validate_proposal returns the result.
StoreResult(p) ==
    LET result == frame[p].result IN
    /\ pc[p] = "storing"
    /\ current = p
    /\ execution_history' = KeepLast(Append(execution_history, result))
    /\ redisValidation' = (result.proposal_id :> result) @@ redisValidation
    /\ published' = Append(published, result)
    /\ effects' = [effects EXCEPT ![p] =
                      [persisted |-> @.persisted + 1,
                       published |-> @.published + 1]]
    /\ pc' = [pc EXCEPT ![p] = "done"]
    /\ current' = 0
    /\ UNCHANGED <<monitorVars, engineVars, frame, containers, runlog, redisMetrics, clock, ncalls>>

\* The caller has the result (or the exception) and the coroutine is gone;
\* the validator can be called again.
Return(p) ==
    /\ pc[p] \in {"done", "raised"}
    /\ pc' = [pc EXCEPT ![p] = "idle"]
    /\ frame' = [frame EXCEPT ![p] = NewFrame]
    /\ runlog' = [runlog EXCEPT ![p] = <<>>]
    /\ effects' = [effects EXCEPT ![p] = NoEffects]
    /\ UNCHANGED <<monitorVars, engineVars, current, containers, redisMetrics, redisValidation,
                   published, execution_history, clock, ncalls>>

\* Task.cancel() on the task that runs validate_proposal: asyncio throws
\* CancelledError into the coroutine at the await it is suspended at.  The
\* only await of validate_proposal that suspends is asyncio.sleep(2) in
\* _test_scale (containers.run blocks the event loop, so nothing else runs
\* and no cancellation is delivered while a run is in progress); there is
\* no handler and no finally on the way out.
Cancel(p) ==
    /\ pc[p] = "sleeping"
    /\ current = 0
    /\ pc' = [pc EXCEPT ![p] = "raised"]
    /\ frame' = [frame EXCEPT ![p].error = "CancelledError"]
    /\ UNCHANGED <<monitorVars, engineVars, current, containers, runlog, redisMetrics,
                   redisValidation, published, execution_history, effects,
                   clock, ncalls>>

-----------------------------------------------------------------------------
(* PerformanceMonitor, call by call *)

\* record_metrics(metrics): a snapshot is appended to the history and the
\* current_value of every dimension named in metrics is updated.
RecordMetrics(metrics) ==
    /\ history' = DequeAppend(history,
                              [timestamp |-> clock, metrics |-> metrics])
    /\ clock' = clock + 1
    /\ dimensions' =
          [i \in DOMAIN dimensions |->
              IF dimensions[i].name \in DOMAIN metrics
              THEN [dimensions[i] EXCEPT
                       !.current_value = metrics[dimensions[i].name]]
              ELSE dimensions[i]]
    /\ reports' = <<>>
    /\ UNCHANGED <<engineVars, pc, frame, current, containers, runlog,
                   redisMetrics, redisValidation, published,
                   execution_history, effects, ncalls>>

\* identify_bottleneck() is called and returns.
CallIdentifyBottleneck ==
    /\ reports' = Append(reports, MonitorIdentifyBottleneck(dimensions))
    /\ UNCHANGED <<validatorVars, engineVars, dimensions, history>>

-----------------------------------------------------------------------------
(* MetaCognitionEngine, call by call.  The engine validates in slot 1 of    *)
(* the validator.                                                           *)

\* `await asyncio.sleep(2)` of _test_scale, in seconds.
SCALE_SLEEP_SECONDS == 2

\* The event loop can run another task: no coroutine is running, and
\* reflect_and_propose is not between two statements that follow each other
\* without a suspension (before it calls validate_proposal, and after
\* validate_proposal has returned).
LoopFree ==
    /\ current = 0
    /\ ~(reflection.pc = "validating" /\ pc[1] \in {"idle", "done"})

\* Step 5 of reflect_and_propose and its return: the validated proposals
\* are added to the tracked ones, the list is cut, the reflection recorded.
StoreProposals(bottleneck, generated, validated) ==
    /\ proposals' = KeepPending(proposals \o validated,
                                config.max_pending_proposals)
    /\ added' = added \o validated
    /\ reflection_history' =
          Append(reflection_history,
                 [timestamp |-> clock,
                  bottleneck |-> bottleneck,
                  proposals_generated |-> Len(generated),
                  proposals_validated |-> Len(validated)])
    /\ clock' = clock + 1
    /\ reflection' = [NoReflection EXCEPT !.calls = reflection.calls + 1]

\* reflect_and_propose(current_workflow, test_scenarios) up to its first
\* suspension: the bottleneck of the monitor, the severity check, the
\* proposals; with no test scenarios, or nothing to validate, the rest of
\* the call as well.
Reflect(current_workflow, test_scenarios) ==
    LET bottleneck == MonitorIdentifyBottleneck(dimensions)
        generated == GenerateProposals(current_workflow, bottleneck, now)
    IN
    /\ reflection.pc = "idle"
    /\ LoopFree
    /\ pc[1] = "idle"
    /\ IF RLt(bottleneck.severity, SEVERITY_THRESHOLD)
       THEN /\ reflection' = [reflection EXCEPT !.calls = @ + 1]
            /\ UNCHANGED <<proposals, added, reflection_history, clock>>
       ELSE IF test_scenarios /\ generated # <<>>
       THEN /\ reflection' =
                  [reflection EXCEPT !.pc = "validating",
                                     !.current_workflow = current_workflow,
                                     !.test_scenarios = test_scenarios,
                                     !.bottleneck = bottleneck,
                                     !.generated = generated,
                                     !.k = 1,
                                     !.validated = <<>>]
            /\ UNCHANGED <<proposals, added, reflection_history, clock>>
       ELSE StoreProposals(bottleneck, generated, generated)
    /\ UNCHANGED <<monitorVars, config, deployed_optimizations, deployment,
                   now, rejected, pc, frame, current, containers, runlog,
                   redisMetrics, redisValidation, published,
                   execution_history, effects, ncalls>>

\* The loop of step 4 calls validate_proposal for the next proposal.
StartValidation ==
    /\ reflection.pc = "validating"
    /\ Call(1, reflection.generated[reflection.k].id,
            reflection.generated[reflection.k].target_bottleneck)

\* validate_proposal has returned its result to the loop of step 4: the
\* proposal gets the result and, approved, joins the validated ones; after
\* the last proposal, step 5.  The three sleeps of _test_scale have taken
\* their time.
ValidationReturns ==
    LET r == reflection
        result == frame[1].result
        proposal == [r.generated[r.k] EXCEPT !.validation_result = Some(result)]
        validated == IF result.approved
                     THEN Append(r.validated, proposal)
                     ELSE r.validated
    IN
    /\ r.pc = "validating"
    /\ pc[1] = "done"
    /\ pc' = [pc EXCEPT ![1] = "idle"]
    /\ frame' = [frame EXCEPT ![1] = NewFrame]
    /\ runlog' = [runlog EXCEPT ![1] = <<>>]
    /\ effects' = [effects EXCEPT ![1] = NoEffects]
    /\ now' = now + Len(SCALE_MULTIPLIERS) * SCALE_SLEEP_SECONDS
    /\ rejected' = IF result.approved THEN rejected
                   ELSE rejected \cup {proposal}
    /\ IF r.k < Len(r.generated)
       THEN /\ reflection' = [r EXCEPT !.k = @ + 1, !.validated = validated]
            /\ UNCHANGED <<proposals, added, reflection_history, clock>>
       ELSE StoreProposals(r.bottleneck, r.generated, validated)
    /\ UNCHANGED <<monitorVars, config, deployed_optimizations, deployment,
                   current, containers, redisMetrics, redisValidation,
                   published, execution_history, ncalls>>

\* A deploy_approved_proposal that appends whatever the lookup returns.
MutDeploy(proposal_id) ==
    LET matches == {i \in DOMAIN proposals : proposals[i].id = proposal_id}
        first == CHOOSE i \in matches : \A j \in matches : i <= j
    IN
    /\ LoopFree
    /\ deployment' = [calls |-> deployment.calls + 1,
                      proposal_id |-> proposal_id,
                      raised |-> IF matches = {} THEN "Proposal not found"
                                 ELSE "none",
                      named |-> IF matches = {} THEN proposal_id ELSE ""]
    /\ IF matches # {}
       THEN /\ deployed_optimizations' =
                  Append(deployed_optimizations,
                         [id |-> proposals[first].id,
                          type |-> proposals[first].optimization_type,
                          modification |-> proposals[first].workflow_modification,
                          expected_improvement |->
                              proposals[first].expected_improvement,
                          deployed_at |-> clock])
            /\ clock' = clock + 1
       ELSE UNCHANGED <<deployed_optimizations, clock>>
    /\ UNCHANGED <<monitorVars, config, proposals, reflection_history,
                   reflection, now, added, rejected, pc, frame, current,
                   containers, runlog, redisMetrics, redisValidation,
                   published, execution_history, effects, ncalls>>

\* deploy_approved_proposal(proposal_id, workflow): it has no await, so it
\* runs from call to return (or raise) in one piece.
Deploy(proposal_id) ==
    LET outcome == DeployOutcome(proposals, proposal_id) IN
    /\ LoopFree
    /\ deployment' = [calls |-> deployment.calls + 1,
                      proposal_id |-> proposal_id,
                      raised |-> outcome.raised,
                      named |-> IF outcome.raised = "none" THEN ""
                                ELSE outcome.named]
    /\ IF outcome.raised = "none"
       THEN /\ deployed_optimizations' =
                  Append(deployed_optimizations,
                         [id |-> outcome.deployment.id,
                          type |-> outcome.deployment.type,
                          modification |-> outcome.deployment.modification,
                          expected_improvement |->
                              outcome.deployment.expected_improvement,
                          deployed_at |-> clock])
            /\ clock' = clock + 1
       ELSE UNCHANGED <<deployed_optimizations, clock>>
    /\ UNCHANGED <<monitorVars, config, proposals, reflection_history,
                   reflection, now, added, rejected, pc, frame, current,
                   containers, runlog, redisMetrics, redisValidation,
                   published, execution_history, effects, ncalls>>

\* A second of wall-clock time passes.
Tick ==
    /\ now' = now + 1
    /\ UNCHANGED <<validatorVars, monitorVars, config, proposals,
                   deployed_optimizations, reflection_history, reflection,
                   deployment, added, rejected>>

-----------------------------------------------------------------------------
(* What the sandbox runs measure: the inputs of the model *)

B100 == Metrics(100, 100, 100, 100, 100)

MetricFields ==
    {"throughput", "cost", "error_rate", "latency_p95", "memory_peak_mb"}

\* Values around 100: a change of 0.15, 0.06 or 0.05, for the better or for
\* the worse.
VariedValues(fld) ==
    CASE fld = "throughput" -> {106, 115}
      [] fld = "cost" -> {85, 94, 105, 106}
      [] OTHER -> {85, 106}

BaselineSamples == {B100, Metrics(0, 100, 100, 500, 100)}

ProposedSamples ==
    {B100}
    \cup UNION {{[B100 EXCEPT ![fld] = v] : v \in VariedValues(fld)} :
                   fld \in MetricFields}
    \cup {[B100 EXCEPT !.throughput = 115, ![fld] = v] :
             fld \in {"cost", "memory_peak_mb"}, v \in {105, 106}}

\* Throughput of the candidate at 1x, 5x and 10x load.
ScaleThroughputs == <<{10}, {40, 50}, {60, 80, 100}>>

SamplesFor(f) ==
    CASE f.stage = "baseline" -> BaselineSamples
      [] f.stage = "proposed" -> ProposedSamples
      [] f.stage = "scale" ->
            {[B100 EXCEPT !.throughput = t] : t \in ScaleThroughputs[f.i]}

\* The outputs a run at the frame's position can produce.
OutputsFor(f) ==
    {Output("metrics", m) : m \in SamplesFor(f)}
    \cup {Output(k, ZeroMetrics) : k \in OutputKinds \ {"metrics"}}

\* limiting_factor as the callers pass it: absent, a tracked dimension, or a
\* dimension _calculate_changes does not track ("accuracy"; "api_rate_limit"
\* takes the same path through improvement.get and is left out).
LimitingFactors ==
    {NoFactor} \cup DimensionSet \cup ((PerformanceDimension \ DimensionSet) \ {"api_rate_limit"})

\* The containers of earlier runs of the call in slot p that still exist.
Survivors(p) ==
    Cardinality({c \in containers :
                    c.call = frame[p].call /\ c # ContainerOf(frame[p])})

-----------------------------------------------------------------------------
(* Spec: one validate_proposal call, every run outcome *)

Next ==
    \/ \E lf \in LimitingFactors : Call(1, "p1", lf)
    \/ RunStart(1)
    \/ \E out \in OutputsFor(frame[1]) : RunCompletes(1, out)
    \/ \E removed \in BOOLEAN, out \in OutputsFor(frame[1]) :
          /\ removed \/ Survivors(1) < MaxSurvivors
          /\ RunContainerError(1, removed, out)
    \/ \E removed \in BOOLEAN : RunApiError(1, removed)
    \/ Wake(1)
    \/ Cancel(1)
    \/ Decide(1)
    \/ StoreResult(1)

Spec == Init /\ [][Next]_vars

-----------------------------------------------------------------------------
(* Properties of one validation call *)

\* The calls whose ValidationResult has been built.
Decided == {p \in Tasks : pc[p] \in {"storing", "done"}}

\* C1.  Safety gate: an approved ValidationResult has an improvement of the
\* limiting dimension of at least 0.15, no regression above 0.05 in any of
\* the five tracked dimensions, and a scale linearity of at least 0.80.
C1_SafetyGate ==
    \A p \in Decided :
        LET r == frame[p].result
            lf == frame[p].limiting_factor
        IN  r.approved =>
              /\ lf \in DOMAIN r.improvement
              /\ RGe(r.improvement[lf], <<15, 100>>)
              /\ \A dim \in {"throughput", "cost", "error_rate", "latency",
                             "memory"} :
                    dim \in DOMAIN r.regressions =>
                        RLe(r.regressions[dim], <<5, 100>>)
              /\ RGe(frame[p].linearity, <<80, 100>>)

\* An approved result that carries a regression of exactly 0.05 in a
\* dimension other than the limiting one has been returned.
C1_Witness ==
    \E p \in Tasks :
        /\ pc[p] = "done"
        /\ frame[p].result.approved
        /\ \E dim \in DOMAIN frame[p].result.regressions :
              /\ dim # frame[p].limiting_factor
              /\ REq(frame[p].result.regressions[dim], <<5, 100>>)

\* The first gate condition that fails, in the order bottleneck, regression,
\* scale, with the conditions as the specification states them.
FirstFailing(r, lf, linearity) ==
    IF ~(lf \in DOMAIN r.improvement /\ RGe(r.improvement[lf], <<15, 100>>))
    THEN "bottleneck"
    ELSE IF \E dim \in DOMAIN r.regressions :
                RGt(r.regressions[dim], <<5, 100>>)
    THEN "regression"
    ELSE IF RLt(linearity, <<80, 100>>)
    THEN "scale"
    ELSE "none"

\* C2.  An approved result has no reason; a rejected result has a reason,
\* and the reason names the first failing gate condition in the order
\* bottleneck improvement, regression tolerance, scale linearity.
C2_ReasonNamesFirstFailing ==
    \A p \in Decided :
        LET r == frame[p].result
        IN  /\ r.approved => r.reason = "none"
            /\ ~r.approved =>
                  /\ r.reason # "none"
                  /\ r.reason = FirstFailing(r, frame[p].limiting_factor,
                                             frame[p].linearity)

\* C3.  Completeness of the gate: a candidate that improves the limiting
\* dimension by at least 0.15, regresses nothing by more than 0.05 and has a
\* scale linearity of at least 0.80 is approved.
C3_GateComplete ==
    \A p \in Decided :
        LET r == frame[p].result
        IN  FirstFailing(r, frame[p].limiting_factor, frame[p].linearity) = "none"
                => r.approved

\* The order of the sandbox runs of one call.
ExpectedRunLog ==
    <<<<"start", "baseline">>, <<"end", "baseline">>,
      <<"start", "proposed">>, <<"end", "proposed">>,
      <<"start", "scale-1x">>, <<"end", "scale-1x">>,
      <<"start", "scale-5x">>, <<"end", "scale-5x">>,
      <<"start", "scale-10x">>, <<"end", "scale-10x">>>>

\* C4.  The runs of one call are sequential and in the order baseline,
\* proposed, scale-1x, scale-5x, scale-10x: each run starts after the
\* previous one has ended.
C4_RunsSequentialInOrder ==
    \A p \in Tasks :
        /\ Len(runlog[p]) <= Len(ExpectedRunLog)
        /\ runlog[p] = SubSeq(ExpectedRunLog, 1, Len(runlog[p]))

\* A call has made all five runs.
C4_Witness ==
    \E p \in Tasks : pc[p] = "done" /\ runlog[p] = ExpectedRunLog

\* C5.  The result of a call is persisted once and published once, after
\* approved, reason and confidence are final; a call that has returned has
\* done both.
C5_StoredOnceAfterVerdict ==
    /\ \A p \in Tasks :
          /\ effects[p].persisted <= 1
          /\ effects[p].published <= 1
          /\ effects[p] # NoEffects => frame[p].decided
          /\ pc[p] = "done" => effects[p] = [persisted |-> 1, published |-> 1]
          /\ pc[p] # "done" => effects[p] = NoEffects
    /\ \A i \in 1..Len(published) :
          /\ published[i].timestamp < clock
          /\ \A j \in 1..Len(published) :
                published[i].timestamp = published[j].timestamp => i = j
    /\ \A i \in 1..Len(execution_history) :
          \A j \in 1..Len(execution_history) :
              execution_history[i].timestamp = execution_history[j].timestamp
                  => i = j

\* A call has returned a rejected result, persisted and published.
C5_Witness ==
    \E p \in Tasks :
        /\ pc[p] = "done"
        /\ ~frame[p].result.approved
        /\ redisValidation[frame[p].proposal_id] = frame[p].result
        /\ published[Len(published)] = frame[p].result

\* C8.  _run_sandbox returns metrics (zero-valued for an output that is not
\* in the expected shape) and raises for no output, whatever JSON or text it
\* is.
C8_RunnerNeverRaisesOnOutput ==
    \A p \in Tasks :
        pc[p] = "raised" => frame[p].error \notin {"TypeError", "AttributeError"}

\* C9.  A bad run (abnormal termination, malformed output) does not abort
\* the call: no failure of a run leaves validate_proposal as an exception.
C9_BadRunDoesNotAbort ==
    \A p \in Tasks :
        pc[p] = "raised" =>
            frame[p].error \notin {"NotFound", "TypeError", "AttributeError"}

\* C10.  No sandbox is leaked: when _run_sandbox has returned or raised,
\* the container it started has been removed.
C10_NoSandboxLeaked ==
    \A c \in containers :
        \E p \in Tasks : pc[p] = "running" /\ c = ContainerOf(frame[p])

\* The call in slot p is at a boundary between two sandbox runs: a run has
\* just ended (after baseline, after candidate, after a scale run) and the
\* next statement of the coroutine has not run.
AtRunBoundary(p) ==
    \/ pc[p] = "run_start" /\ frame[p].stage = "proposed"
    \/ pc[p] = "run_start" /\ frame[p].stage = "scale" /\ frame[p].i = 1
    \/ pc[p] = "sleeping"

\* The cancellation of the call in slot p has been acknowledged: the
\* CancelledError has left validate_proposal.
CancelAcknowledged(p) ==
    pc[p] = "raised" /\ frame[p].error = "CancelledError"

\* C11.  Cancellation: a validation can be cancelled at every boundary
\* between two sandbox runs and never while a run is in progress; when the
\* cancellation is acknowledged, every container the validation started has
\* been removed and no result of it has been persisted or published.
C11_Cancellation ==
    \A p \in Tasks :
        /\ AtRunBoundary(p) => ENABLED Cancel(p)
        /\ pc[p] = "running" => ~ENABLED Cancel(p)
        /\ CancelAcknowledged(p) =>
              /\ \A c \in containers : c.call # frame[p].call
              /\ effects[p] = NoEffects

-----------------------------------------------------------------------------
(* The phases of one validation call *)

\* The phase the call in slot p is in, by the names of the specification's
\* state machine.  IdentifyingBottleneck and AnalyzingDelta are computations
\* between two runs: they take place within the step that ends the baseline
\* run and the step that ends the candidate run.
Phase(p) ==
    CASE pc[p] = "idle" -> "Idle"
      [] pc[p] = "raised" -> "Raised"
      [] pc[p] \in {"storing", "done"} ->
            IF frame[p].result.approved THEN "Approved" ELSE "Rejected"
      [] pc[p] = "deciding" -> "Deciding"
      [] frame[p].stage = "baseline" -> "RunningBaseline"
      [] frame[p].stage = "proposed" -> "RunningCandidate"
      [] frame[p].stage = "scale" -> "TestingScale"

\* The step in which the call in slot p identifies its bottleneck.
IdentifiesBottleneck(p) ==
    /\ pc[p] # "idle"
    /\ frame[p].limiting_factor = NoFactor
    /\ frame'[p].limiting_factor # NoFactor

\* The order of the phases; a call an exception ends stops where it is.
PhaseSteps ==
    {<<"Idle", "RunningBaseline">>,
     <<"RunningBaseline", "RunningCandidate">>,
     <<"RunningCandidate", "TestingScale">>,
     <<"TestingScale", "Deciding">>,
     <<"Deciding", "Approved">>, <<"Deciding", "Rejected">>,
     <<"Approved", "Idle">>, <<"Rejected", "Idle">>, <<"Raised", "Idle">>,
     <<"RunningBaseline", "Raised">>, <<"RunningCandidate", "Raised">>,
     <<"TestingScale", "Raised">>}

\* A step of the call in slot p keeps the phase or moves it forward.
PhaseMovesForward(p) ==
    Phase(p)' = Phase(p) \/ <<Phase(p), Phase(p)'>> \in PhaseSteps

\* The delta has been analysed when the scale test starts, and the scale
\* test has made its three runs when the gate decides, whatever the delta.
DeltaThenScaleThenVerdict(p) ==
    /\ Phase(p) = "TestingScale" =>
          /\ frame[p].improvement =
                CalculateChanges(frame[p].baseline_metrics,
                                 frame[p].proposed_metrics).improvement
          /\ frame[p].regressions =
                CalculateChanges(frame[p].baseline_metrics,
                                 frame[p].proposed_metrics).regressions
    /\ Phase(p) \in {"Deciding", "Approved", "Rejected"} =>
          /\ Len(frame[p].results) = Len(SCALE_MULTIPLIERS)
          /\ runlog[p] = ExpectedRunLog

\* C22.  Every validate_proposal call passes through the phases in the
\* order IdentifyingBottleneck, RunningBaseline, RunningCandidate,
\* AnalyzingDelta, TestingScale, Deciding, then Approved or Rejected: the
\* bottleneck is identified before the baseline run starts, the delta is
\* analysed before the scale test starts, the scale test always runs, and no
\* phase is revisited.
C22_PhasesInOrder ==
    /\ [](\A p \in Tasks :
            /\ Phase(p) = "RunningBaseline" => frame[p].limiting_factor # NoFactor
            /\ DeltaThenScaleThenVerdict(p))
    /\ [][\A p \in Tasks :
            /\ PhaseMovesForward(p)
            /\ ~IdentifiesBottleneck(p)]_vars

\* C22, with the bottleneck where the code identifies it: a call that is
\* given no limiting_factor identifies it from the metrics of its baseline
\* run, in the step between the baseline run and the candidate run, and the
\* bottleneck is known when the candidate run starts.
C22_PhasesInOrderBaselineFirst ==
    /\ [](\A p \in Tasks :
            /\ Phase(p) \in {"RunningCandidate", "TestingScale", "Deciding",
                             "Approved", "Rejected"} =>
                  frame[p].limiting_factor # NoFactor
            /\ DeltaThenScaleThenVerdict(p))
    /\ [][\A p \in Tasks :
            /\ PhaseMovesForward(p)
            /\ IdentifiesBottleneck(p) =>
                  /\ Phase(p) = "RunningBaseline"
                  /\ Phase(p)' = "RunningCandidate"
                  /\ frame'[p].limiting_factor =
                        IdentifyBottleneck(frame'[p].baseline_metrics)]_vars

\* A call has been rejected because the limiting dimension did not improve,
\* after its scale test made all three runs.
C22_Witness ==
    \E p \in Tasks :
        /\ pc[p] = "done"
        /\ ~frame[p].result.approved
        /\ frame[p].result.reason = "bottleneck"
        /\ Len(frame[p].results) = 3
        /\ runlog[p] = ExpectedRunLog

\* How many times run_id was started in the run log of slot p.
RunsOf(p, run_id) ==
    Cardinality({k \in 1..Len(runlog[p]) : runlog[p][k] = <<"start", run_id>>})

\* C23.  A call makes exactly one baseline run and exactly one candidate
\* run, whether or not limiting_factor is supplied: the baseline run that
\* identifies the bottleneck is not repeated, and the metrics of the result
\* are those of that baseline run and that candidate run, never those of a
\* scale run.
C23_OneBaselineOneCandidate ==
    /\ \A p \in Tasks :
          /\ RunsOf(p, "baseline") <= 1
          /\ RunsOf(p, "proposed") <= 1
    /\ \A p \in Decided :
          /\ RunsOf(p, "baseline") = 1
          /\ RunsOf(p, "proposed") = 1
          /\ frame[p].result.metrics.baseline = redisMetrics["baseline"]
          /\ frame[p].result.metrics.proposed = redisMetrics["proposed"]

\* A call has returned a result whose baseline and candidate metrics differ
\* from each other and from what its scale runs measured.
C23_Witness ==
    \E p \in Tasks :
        /\ pc[p] = "done"
        /\ frame[p].result.metrics.baseline = Metrics(0, 100, 100, 500, 100)
        /\ frame[p].result.metrics.proposed = [B100 EXCEPT !.cost = 85]
        /\ \A i \in 1..Len(SCALE_MULTIPLIERS) :
              redisMetrics[ScaleRunId(SCALE_MULTIPLIERS[i])]
                  \notin {frame[p].result.metrics.baseline,
                          frame[p].result.metrics.proposed}

\* C24.  A candidate whose run printed nothing that parses, so that all its
\* metrics are zero, is never approved, whatever the baseline, the supplied
\* limiting_factor and the outcome of the scale test.
C24_ZeroCandidateNeverApproved ==
    \A p \in Decided :
        frame[p].result.metrics.proposed = ZeroMetrics =>
            ~frame[p].result.approved

\* C25.  A call whose limiting_factor is none of the five dimensions
\* _calculate_changes tracks is rejected, and the reason is the missing
\* improvement of the bottleneck.
C25_UntrackedFactorRejected ==
    \A p \in Decided :
        frame[p].limiting_factor \notin DimensionSet =>
            /\ ~frame[p].result.approved
            /\ frame[p].result.reason = "bottleneck"

\* A call for "accuracy" has been rejected although its candidate improves
\* the throughput by 0.15, regresses nothing and scales linearly.
C25_Witness ==
    \E p \in Tasks :
        /\ pc[p] = "done"
        /\ frame[p].limiting_factor = "accuracy"
        /\ frame[p].result.metrics.proposed = [B100 EXCEPT !.throughput = 115]
        /\ frame[p].result.metrics.baseline = B100
        /\ REq(frame[p].linearity, One)
        /\ ~frame[p].result.approved
        /\ frame[p].result.reason = "bottleneck"

-----------------------------------------------------------------------------
(* SpecMulti: validations running concurrently on one validator *)

ProposalIds == {"p1", "p2"}

MultiOutputsFor(f) ==
    CASE f.stage = "baseline" ->
            {Output("metrics", B100),
             Output("metrics", [B100 EXCEPT !.throughput = 85])}
      [] f.stage = "proposed" ->
            {Output("metrics", [B100 EXCEPT !.throughput = 115])}
      [] f.stage = "scale" ->
            {Output("metrics", [B100 EXCEPT !.throughput = t]) :
                t \in <<{10}, {50}, {60, 100}>>[f.i]}

NextMulti ==
    \E p \in Tasks :
        \/ /\ ncalls < MaxCalls
           /\ \E proposal_id \in ProposalIds : Call(p, proposal_id, "throughput")
        \/ RunStart(p)
        \/ \E out \in MultiOutputsFor(frame[p]) : RunCompletes(p, out)
        \/ Wake(p)
        \/ Decide(p)
        \/ StoreResult(p)
        \/ Return(p)

SpecMulti == Init /\ [][NextMulti]_vars

\* The calls that are past their baseline run and have not ended.
PastBaseline ==
    {p \in Tasks : /\ pc[p] \in {"run_start", "running", "sleeping",
                                  "deciding", "storing"}
                   /\ frame[p].stage # "baseline"}

\* C6.  The runs of a validation write nothing to the shared cache, so a
\* validation in progress never finds its intermediate data overwritten by
\* another one: the baseline metrics in the cache, if any, are its own.
C6_NoCrossOverwrite ==
    \A p \in PastBaseline :
        "baseline" \in DOMAIN redisMetrics =>
            redisMetrics["baseline"] = frame[p].baseline_metrics

-----------------------------------------------------------------------------
(* SpecRetention: one validator, called again and again *)

\* The proposal validated by call number n + 1.
RetentionProposals(n) == IF n = 0 THEN ProposalIds ELSE {"p1"}

RetentionOutputFor(f) ==
    CASE f.stage = "baseline" -> Output("metrics", B100)
      [] f.stage = "proposed" ->
            Output("metrics", [B100 EXCEPT !.throughput = 115])
      [] f.stage = "scale" ->
            Output("metrics", [B100 EXCEPT !.throughput = SCALE_MULTIPLIERS[f.i] * 10])

NextRetention ==
    \/ /\ ncalls < MaxStored
       /\ \E proposal_id \in RetentionProposals(ncalls) :
             Call(1, proposal_id, "throughput")
    \/ RunStart(1)
    \/ RunCompletes(1, RetentionOutputFor(frame[1]))
    \/ Wake(1)
    \/ Decide(1)
    \/ StoreResult(1)
    \/ Return(1)

SpecRetention == Init /\ [][NextRetention]_vars

\* The results stored so far, in the order stored: each one was published.
Stored == published

\* C7 as claimed.  The store is append-only: every result stored so far is
\* still in execution_history and still the cached copy of its proposal_id.
C7_AppendOnly ==
    \A i \in 1..Len(Stored) :
        /\ \E j \in 1..Len(execution_history) : execution_history[j] = Stored[i]
        /\ redisValidation[Stored[i].proposal_id] = Stored[i]

\* C7 as amended.  The store is a bounded window: execution_history is the
\* (at most) 100 most recently stored results, unchanged and in the order
\* stored, and the cached copy of a proposal_id is the result stored last
\* for that proposal_id.
C7_BoundedWindow ==
    LET n == Len(Stored)
        k == Len(execution_history)
    IN  /\ k = IF n < 100 THEN n ELSE 100
        /\ \A j \in 1..k : execution_history[j] = Stored[n - k + j]
        /\ DOMAIN redisValidation = {Stored[i].proposal_id : i \in 1..n}
        /\ \A i \in 1..n :
              (\A l \in (i + 1)..n : Stored[l].proposal_id # Stored[i].proposal_id)
                  => redisValidation[Stored[i].proposal_id] = Stored[i]

\* More than 100 results have been stored: the oldest is gone from
\* execution_history, and the result of the other proposal is still cached.
C7_Witness ==
    /\ Len(Stored) > 100
    /\ Len(execution_history) = 100
    /\ execution_history[1] # Stored[1]
    /\ "p2" \in DOMAIN redisValidation

-----------------------------------------------------------------------------
(* SpecOverlap: one validator, called again and again, the last calls by   *)
(* callers whose validations overlap                                        *)

\* The first calls are made one after the other; the last MaxOverlapping
\* calls start whenever a slot is free, while earlier ones are in progress.
\* A call takes the first free slot.
NextOverlap ==
    \E p \in Tasks :
        \/ /\ ncalls < MaxStored
           /\ \A q \in Tasks : q < p => pc[q] # "idle"
           /\ ncalls < MaxStored - MaxOverlapping =>
                 \A q \in Tasks : pc[q] = "idle"
           /\ Call(p, "p1", "throughput")
        \/ RunStart(p)
        \/ RunCompletes(p, RetentionOutputFor(frame[p]))
        \/ Wake(p)
        \/ Decide(p)
        \/ StoreResult(p)
        \/ Return(p)

SpecOverlap == Init /\ [][NextOverlap]_vars

\* The results of the validations completed so far, in the order in which
\* they completed: _store_result publishes each one as it stores it.
Completed == published

\* C28.  After any sequence of validations, overlapping ones included,
\* execution_history holds at most 100 results; they are the results of the
\* validations completed last, in the order of completion; and the result of
\* a completed validation is in it at most once.
C28_HistoryBounded ==
    LET n == Len(Completed)
        k == Len(execution_history)
    IN  /\ k <= HISTORY_LIMIT
        /\ k <= n
        /\ k < n => k = HISTORY_LIMIT
        /\ execution_history = SubSeq(Completed, n - k + 1, n)
        /\ \A i, j \in 1..k :
              execution_history[i].timestamp = execution_history[j].timestamp
                  => i = j

\* More than 100 validations have completed, the last one while another
\* validation was between two of its scale runs, and execution_history
\* holds the last 100 of them.
C28_Witness ==
    /\ Len(Completed) > HISTORY_LIMIT
    /\ Len(execution_history) = HISTORY_LIMIT
    /\ execution_history[HISTORY_LIMIT] = Completed[Len(Completed)]
    /\ \E p, q \in Tasks :
          /\ pc[p] = "done"
          /\ frame[p].result = Completed[Len(Completed)]
          /\ pc[q] = "sleeping"
          /\ frame[q].call < frame[p].call

-----------------------------------------------------------------------------
(* SpecScenarios: one validation from end to end, over a grid of            *)
(* measurements: unchanged, zero, slightly and extremely changed values,   *)
(* and scale runs that are linear, sub-linear and super-linear             *)

\* The baseline run: every dimension measured, or cost and latency at 0.
ScenarioBaselines ==
    {Metrics(50, 100, 100, 100, 100), Metrics(50, 0, 100, 0, 100)}

\* What the candidate run can measure in one field.
ScenarioValues(fld) ==
    CASE fld = "throughput" -> {0, 50, 55, 70, 5000}
      [] OTHER -> {0, 50, 100, 105, 106, 10000}

\* The candidate run: Metrics(50, 100, 100, 100, 100) with up to two fields
\* changed, every dimension better, or every dimension worse.
ScenarioCandidates ==
    UNION {UNION {{[Metrics(50, 100, 100, 100, 100)
                       EXCEPT ![f1] = v1, ![f2] = v2] :
                      v1 \in ScenarioValues(f1), v2 \in ScenarioValues(f2)} :
                     f2 \in MetricFields} :
              f1 \in MetricFields}
    \cup {Metrics(5000, 50, 50, 50, 50), Metrics(0, 10000, 10000, 10000, 10000)}

\* The throughput of a scale run, given the 1x throughput measured before:
\* in twentieths of the 1x throughput, 100 (5x) and 200 (10x) are linear.
ScenarioScaleThroughputs(f) ==
    CASE f.i = 1 -> {0, 20}
      [] f.i = 2 -> {(f.results[1] * k) \div 20 : k \in {60, 95, 100, 120}}
      [] f.i = 3 -> {(f.results[1] * k) \div 20 : k \in {-800, 120, 190, 200}}

ScenarioOutputsFor(f) ==
    CASE f.stage = "baseline" -> {Output("metrics", m) : m \in ScenarioBaselines}
      [] f.stage = "proposed" -> {Output("metrics", m) : m \in ScenarioCandidates}
      [] f.stage = "scale" ->
            {Output("metrics", [B100 EXCEPT !.throughput = t]) :
                t \in ScenarioScaleThroughputs(f)}

NextScenarios ==
    \/ \E lf \in {"throughput", "cost"} : Call(1, "p1", lf)
    \/ RunStart(1)
    \/ \E out \in ScenarioOutputsFor(frame[1]) : RunCompletes(1, out)
    \/ Wake(1)
    \/ Decide(1)
    \/ StoreResult(1)

SpecScenarios == Init /\ [][NextScenarios]_vars

-----------------------------------------------------------------------------
(* Properties of the delta analysis, the scale test and the verdict *)

\* The calls whose delta analysis (_calculate_changes) has been made.
Analyzed == {p \in Tasks : pc[p] # "idle" /\ frame[p].stage = "scale"}

\* C12.  For every pair of baseline and candidate metrics, each of the five
\* tracked dimensions is in exactly one of the maps improvements and
\* regressions: none is in both, none is skipped, and a dimension whose
\* baseline value is 0 is recorded with magnitude 0.
C12_EachDimensionInOneMap ==
    \A p \in Analyzed :
        LET f == frame[p]
            tracked == {"throughput", "cost", "error_rate", "latency", "memory"}
        IN  /\ DOMAIN f.improvement \cap DOMAIN f.regressions = {}
            /\ DOMAIN f.improvement \cup DOMAIN f.regressions = tracked
            /\ \A dim \in tracked :
                  Accessor(f.baseline_metrics, dim) = 0 =>
                      /\ dim \in DOMAIN f.improvement => f.improvement[dim] = Zero
                      /\ dim \in DOMAIN f.regressions => f.regressions[dim] = Zero

\* A validation has returned whose baseline measured a cost of 0, recorded
\* with magnitude 0, next to an improved and a regressed dimension.
C12_Witness ==
    \E p \in Tasks :
        /\ pc[p] = "done"
        /\ frame[p].baseline_metrics.cost = 0
        /\ frame[p].proposed_metrics.cost > 0
        /\ "cost" \in DOMAIN frame[p].regressions
        /\ frame[p].regressions["cost"] = Zero
        /\ "throughput" \in DOMAIN frame[p].improvement
        /\ \E dim \in DOMAIN frame[p].regressions :
              RGt(frame[p].regressions[dim], Zero)

\* C13.  A dimension whose baseline value equals its candidate value is
\* never recorded as a regression: it is in neither map, or it is an
\* improvement of magnitude 0.
C13_UnchangedNeverRegression ==
    \A p \in Analyzed :
        LET f == frame[p]
        IN  \A dim \in {"throughput", "cost", "error_rate", "latency", "memory"} :
                Accessor(f.baseline_metrics, dim) = Accessor(f.proposed_metrics, dim)
                    => /\ dim \notin DOMAIN f.regressions
                       /\ dim \in DOMAIN f.improvement => f.improvement[dim] = Zero

\* C17.  The confidence of every ValidationResult is in [0, 1].
C17_ConfidenceInUnitInterval ==
    \A p \in Decided :
        /\ RGe(frame[p].result.confidence, Zero)
        /\ RLe(frame[p].result.confidence, One)

\* A result has been returned for a candidate that improved every dimension,
\* one of them more than tenfold, with a linearity above 1: the confidence
\* is 1.
C17_Witness ==
    \E p \in Tasks :
        /\ pc[p] = "done"
        /\ DOMAIN frame[p].result.regressions = {}
        /\ \E dim \in DOMAIN frame[p].result.improvement :
              RGt(frame[p].result.improvement[dim], <<10, 1>>)
        /\ RGt(frame[p].linearity, One)
        /\ frame[p].result.confidence = One

\* The scale runs measured the 1x throughput times 5 and times 10.
PerfectlyLinear(results) ==
    results[2] = results[1] * 5 /\ results[3] = results[1] * 10

\* C18 as claimed.  For a perfectly linear candidate the aggregate scale
\* linearity is exactly 1, for every 1x throughput, 0 included.
C18_LinearMeansOne ==
    \A p \in Decided :
        PerfectlyLinear(frame[p].results) => frame[p].linearity = One

\* C18 as amended.  For a perfectly linear candidate the aggregate scale
\* linearity is exactly 1 when the 1x throughput is positive, and 0 when the
\* 1x throughput is 0.
C18_LinearMeansOneIfPositive ==
    \A p \in Decided :
        PerfectlyLinear(frame[p].results) =>
            frame[p].linearity = IF frame[p].results[1] > 0 THEN One ELSE Zero

\* A validation of a perfectly linear candidate with a positive 1x
\* throughput has returned.
C18_Witness ==
    \E p \in Tasks :
        /\ pc[p] = "done"
        /\ frame[p].results[1] > 0
        /\ PerfectlyLinear(frame[p].results)
        /\ frame[p].linearity = One

\* The candidate improves the limiting dimension by at least 0.15 and
\* regresses no dimension by more than 0.05.
ImprovesWithoutRegression(p) ==
    LET r == frame[p].result
        lf == frame[p].limiting_factor
    IN  /\ lf \in DOMAIN r.improvement
        /\ RGe(r.improvement[lf], <<15, 100>>)
        /\ \A dim \in DOMAIN r.regressions : RLe(r.regressions[dim], <<5, 100>>)

\* C19 as claimed.  Scenario D: a candidate that improves the bottleneck by
\* at least 0.15 with no regression above 0.05, and whose throughput at 10x
\* load is 6 times the 1x throughput, is rejected with the scale reason,
\* whatever its throughput at 5x load.
C19_ScenarioD ==
    \A p \in Decided :
        (/\ ImprovesWithoutRegression(p)
         /\ frame[p].results[3] = 6 * frame[p].results[1])
            => /\ ~frame[p].result.approved
               /\ frame[p].result.reason = "scale"

\* C19 as amended.  Scenario D, when the throughput at 5x load is below 5
\* times the 1x throughput: the aggregate linearity is then below 0.8 and
\* the candidate is rejected with the scale reason.
C19_ScenarioDSubLinearAt5x ==
    \A p \in Decided :
        (/\ ImprovesWithoutRegression(p)
         /\ frame[p].results[3] = 6 * frame[p].results[1]
         /\ frame[p].results[2] < 5 * frame[p].results[1])
            => /\ ~frame[p].result.approved
               /\ frame[p].result.reason = "scale"

\* Scenario D has been returned: throughput improved by 0.4, nothing
\* regressed, 0.95 of linear at 5x and 6 times the 1x throughput at 10x.
C19_Witness ==
    \E p \in Tasks :
        /\ pc[p] = "done"
        /\ ImprovesWithoutRegression(p)
        /\ frame[p].results[1] > 0
        /\ frame[p].results[3] = 6 * frame[p].results[1]
        /\ frame[p].results[2] * 100 = 95 * 5 * frame[p].results[1]
        /\ ~frame[p].result.approved
        /\ frame[p].result.reason = "scale"

\* The call in slot p is scenario A: throughput is the limiting dimension,
\* baseline throughput 50, candidate throughput 70, the other dimensions
\* unchanged, scale linearity 0.95.
IsScenarioA(p) ==
    LET f == frame[p]
    IN  /\ f.limiting_factor = "throughput"
        /\ f.baseline_metrics.throughput = 50
        /\ f.proposed_metrics.throughput = 70
        /\ \A dim \in {"cost", "error_rate", "latency", "memory"} :
              Accessor(f.baseline_metrics, dim) = Accessor(f.proposed_metrics, dim)
        /\ f.linearity = <<95, 100>> \/ f.linearity = <<19, 20>>

\* C20.  Scenario A is approved, with no reason and a confidence above 0.7.
C20_ScenarioA ==
    \A p \in Decided :
        IsScenarioA(p) =>
            /\ frame[p].result.approved
            /\ frame[p].result.reason = "none"
            /\ RGt(frame[p].result.confidence, <<7, 10>>)

\* Scenario A has been returned.
C20_Witness ==
    \E p \in Tasks :
        /\ pc[p] = "done"
        /\ IsScenarioA(p)
        /\ frame[p].result.approved

-----------------------------------------------------------------------------
(* SpecEngine: a MetaCognitionEngine with its monitor and its validator:    *)
(* reflections one after the other, with and without test scenarios, and     *)
(* deploy requests                                                          *)

\* config["max_pending_proposals"] as the caller sets it, the default
\* included.
PendingLimits == {0, 2, DefaultConfig.max_pending_proposals}

\* A workflow with nothing configured, like the demo's, and one with every
\* parameter the generators look at.
BaselineAgent ==
    [parallelism |-> Some(1), model |-> Some("sonnet-4"), caching |-> None]

TunedAgent ==
    [parallelism |-> Some(4), model |-> Some("haiku"),
     caching |-> Some("configured"), batching |-> Some("configured"),
     retry |-> Some("configured"), validation |-> Some("configured")]

Workflows == {BaselineAgent, TunedAgent}

\* Readings for record_metrics, in the units of DefaultDimensions: a
\* healthy system (every utilization below 0.3), and the same with one
\* dimension at its limit.
HealthyReadings ==
    [throughput |-> 1000, latency |-> 2, error_rate |-> 5, memory |-> 100]

EngineReadings ==
    {HealthyReadings,
     [HealthyReadings EXCEPT !.latency = 9],
     ("api_rate_limit" :> 90) @@ HealthyReadings,
     ("cost" :> 95) @@ HealthyReadings,
     [HealthyReadings EXCEPT !.memory = 500]}

\* What the runs of a validation print: a baseline, a candidate that
\* changes nothing or improves every dimension by 0.15, and a candidate
\* that scales linearly.
EngineOutputsFor(f) ==
    CASE f.stage = "baseline" -> {Output("metrics", B100)}
      [] f.stage = "proposed" ->
            {Output("metrics", B100),
             Output("metrics", Metrics(115, 85, 85, 85, 85))}
      [] f.stage = "scale" ->
            {Output("metrics", [B100 EXCEPT !.throughput = SCALE_MULTIPLIERS[f.i] * 10])}

\* The ids a caller asks to deploy: those of the tracked proposals, those of
\* the proposals the sandbox rejected, and one that was never generated.
DeployRequests ==
    {proposals[i].id : i \in DOMAIN proposals}
    \cup {proposal.id : proposal \in rejected}
    \cup {"unknown"}

InitEngineSpec ==
    /\ InitValidator
    /\ dimensions = DefaultDimensions
    /\ history = <<>>
    /\ reports = <<>>
    /\ \E n \in PendingLimits :
          InitEngine([DefaultConfig EXCEPT !.max_pending_proposals = n])

NextEngine ==
    \/ /\ reflection.calls < MaxReflects
       /\ \E current_workflow \in Workflows, test_scenarios \in BOOLEAN :
             Reflect(current_workflow, test_scenarios)
    \/ StartValidation
    \/ RunStart(1)
    \/ \E out \in EngineOutputsFor(frame[1]) : RunCompletes(1, out)
    \/ Wake(1)
    \/ Decide(1)
    \/ StoreResult(1)
    \/ ValidationReturns
    \/ /\ deployment.calls < MaxDeploys
       /\ \E proposal_id \in DeployRequests : Deploy(proposal_id)
    \/ /\ reflection.pc = "idle"
       /\ Len(history) < MaxRecords
       /\ \E metrics \in EngineReadings : RecordMetrics(metrics)
    \/ /\ reflection.pc = "idle"
       /\ now < MaxSeconds
       /\ Tick

SpecEngine == InitEngineSpec /\ [][NextEngine]_vars

\* The tracked proposals that carry the id a deploy request names.
TrackedWithId(proposal_id) ==
    {i \in DOMAIN proposals : proposals[i].id = proposal_id}

\* A step in which a deploy_approved_proposal call is made.
DeployCalled == deployment'.calls # deployment.calls

\* C21.  deploy_approved_proposal records a deployment only for a proposal
\* that is tracked and whose validation result is approved; for an id that
\* no tracked proposal has, or that of a tracked proposal without an
\* approved validation, it raises an error that names the id and leaves
\* deployed_optimizations and proposals unchanged; so every entry of
\* deployed_optimizations belongs to a proposal that was approved when it
\* was deployed.
C21_DeployOnlyApproved ==
    /\ [][DeployCalled =>
            LET id == deployment'.proposal_id
                tracked == TrackedWithId(id)
            IN  /\ proposals' = proposals
                /\ IF tracked = {} \/ \E i \in tracked : ~IsApproved(proposals[i])
                   THEN /\ deployment'.raised # "none"
                        /\ deployment'.named = id
                        /\ deployed_optimizations' = deployed_optimizations
                   ELSE /\ deployment'.raised = "none"
                        /\ Len(deployed_optimizations') =
                              Len(deployed_optimizations) + 1
                        /\ SubSeq(deployed_optimizations', 1,
                                  Len(deployed_optimizations)) =
                              deployed_optimizations
                        /\ \E i \in tracked :
                              LET d == deployed_optimizations'[Len(deployed_optimizations')]
                              IN  /\ d.id = proposals[i].id
                                  /\ d.type = proposals[i].optimization_type
                                  /\ d.modification =
                                        proposals[i].workflow_modification]_vars
    /\ [][deployed_optimizations' # deployed_optimizations => DeployCalled]_vars
    /\ [](\A j \in DOMAIN deployed_optimizations :
             \E i \in DOMAIN added :
                /\ added[i].id = deployed_optimizations[j].id
                /\ IsApproved(added[i]))

\* An approved proposal has been deployed, while a proposal that was never
\* validated is tracked as well.
C21_Witness ==
    /\ deployment.raised = "none"
    /\ Len(deployed_optimizations) = 1
    /\ \E i \in DOMAIN proposals :
          /\ proposals[i].id = deployed_optimizations[1].id
          /\ IsApproved(proposals[i])
    /\ \E i \in DOMAIN proposals : proposals[i].validation_result = None

\* C26.  After any sequence of reflect_and_propose calls the tracked
\* proposals hold no proposal whose validation_result is a rejection: each
\* one is approved or was never validated.  So a proposal the sandbox
\* rejected is never deployed, and a deploy request for it fails as not
\* found.
C26_RejectedNeverTracked ==
    /\ \A i \in DOMAIN proposals :
          proposals[i].validation_result = None \/ IsApproved(proposals[i])
    /\ \A proposal \in rejected :
          /\ \A j \in DOMAIN deployed_optimizations :
                deployed_optimizations[j].id # proposal.id
          /\ DeployOutcome(proposals, proposal.id).raised = "Proposal not found"

\* C27.  After every reflect_and_propose call that gets past the severity
\* check, the tracked proposals are at most config["max_pending_proposals"],
\* for every configured value of that bound, and they are the proposals
\* added last, in the order added.
C27_PendingBounded ==
    LET n == Len(added)
        k == Len(proposals)
    IN  /\ k <= config.max_pending_proposals
        /\ k = Min(n, config.max_pending_proposals)
        /\ proposals = SubSeq(added, n - k + 1, n)

-----------------------------------------------------------------------------
(* SpecMonitor: a PerformanceMonitor with its dimensions configured, fed   *)
(* with readings and asked for the bottleneck; and a validator asked to    *)
(* find the bottleneck itself (limiting_factor=None)                       *)

\* current_value as recorded: nothing, below the bound, above the bound.
ReadingValues == {0, 5, 20}

\* target_value and max_value of a configured dimension: absent, or 10.
BoundOptions == {None, Some(10)}

\* The dimensions of a monitor: the defaults, or a higher-is-better, a
\* lower-is-better and a third dimension with every choice of bounds.
MonitorConfigs ==
    {DefaultDimensions}
    \cup {<<DimensionConfig("throughput", "throughput", 5, t1, m1),
            DimensionConfig("latency", "latency", 5, t2, m2),
            DimensionConfig(n3, n3, 5, t3, m3)>> :
             t1 \in BoundOptions, m1 \in BoundOptions,
             t2 \in BoundOptions, m2 \in BoundOptions,
             t3 \in BoundOptions, m3 \in BoundOptions,
             n3 \in {"accuracy", "token_usage"}}

\* The metrics dicts record_metrics is called with: a reading for each of
\* the first three dimensions, or a reading for no registered dimension.
RecordChoices(dims) ==
    [{dims[1].name, dims[2].name, dims[3].name} -> ReadingValues]
    \cup {[name \in {"queue_depth"} |-> 5]}

\* Baseline measurements with one, two, three and five dimensions at the
\* highest utilization.
BottleneckSamples ==
    {Metrics(100, 100, 100, 100, 100), Metrics(0, 100, 100, 500, 100),
     Metrics(100, 0, 1000, 500, 512), Metrics(100, 100, 0, 0, 512),
     Metrics(100, 0, 0, 0, 0), Metrics(50, 50, 500, 250, 256),
     Metrics(100, 0, 0, 0, 256)}

InitMonitor ==
    /\ InitValidator
    /\ dimensions \in MonitorConfigs
    /\ history = <<>>
    /\ reports = <<>>
    /\ InitEngine(DefaultConfig)

\* The monitor and the validator share no state: the monitor is exercised
\* before any validation, the validator next to an untouched monitor.
NextMonitor ==
    \/ /\ ncalls = 0
       /\ Len(history) < MaxRecords
       /\ \E metrics \in RecordChoices(dimensions) : RecordMetrics(metrics)
    \/ /\ ncalls = 0
       /\ Len(reports) < MaxReports
       /\ CallIdentifyBottleneck
    \/ /\ history = <<>> /\ reports = <<>>
       /\ Call(1, "p1", NoFactor)
    \/ RunStart(1)
    \/ /\ frame[1].stage = "baseline"
       /\ \E m \in BottleneckSamples : RunCompletes(1, Output("metrics", m))

SpecMonitor == InitMonitor /\ [][NextMonitor]_vars

\* config.utilization() of the i-th registered dimension.
UtilizationOf(i) == DimensionConfigUtilization(dimensions[i])

HigherIsBetterTypes == {"throughput", "accuracy"}

\* C14.  A higher-is-better dimension with target_value set has utilization
\* 1 - min(current_value / target_value, 1) for every current_value >= 0,
\* current_value = 0 (utilization 1) included; without target_value it has
\* current_value / max_value, or 0.5 when max_value is not set either.
C14_HigherIsBetterUtilization ==
    \A i \in 1..Len(dimensions) :
        LET c == dimensions[i]
        IN  (c.dim_type \in HigherIsBetterTypes /\ c.current_value >= 0) =>
                UtilizationOf(i) =
                    IF c.target_value # None
                    THEN RSub(One, RMin(Frac(c.current_value, c.target_value[1]),
                                        One))
                    ELSE IF c.max_value # None
                    THEN Frac(c.current_value, c.max_value[1])
                    ELSE <<1, 2>>

\* C15.  With current_value >= 0 and target_value or max_value configured,
\* the utilization is in [0, 1], except for a lower-is-better dimension that
\* has only target_value and a current_value above it.
C15_UtilizationInUnitInterval ==
    \A i \in 1..Len(dimensions) :
        LET c == dimensions[i]
            overshoot ==
                /\ c.dim_type \notin HigherIsBetterTypes
                /\ c.max_value = None
                /\ c.target_value # None
                /\ c.current_value > c.target_value[1]
        IN  (/\ c.current_value >= 0
             /\ c.target_value # None \/ c.max_value # None
             /\ ~overshoot)
                => RGe(UtilizationOf(i), Zero) /\ RLe(UtilizationOf(i), One)

\* C16.  identify_bottleneck returns the registered dimension of maximal
\* utilization, the first declared among several, with that utilization as
\* severity, and returns the same dimension when called again on the same
\* readings; _identify_bottleneck of the validator picks the maximum of its
\* five utilizations by the same rule.
C16_BottleneckIsFirstMaximum ==
    /\ \A k \in 1..Len(reports) :
          \E i \in 1..Len(dimensions) :
              /\ reports[k].bottleneck = dimensions[i].name
              /\ reports[k].severity = UtilizationOf(i)
              /\ \A j \in 1..Len(dimensions) :
                    RLe(UtilizationOf(j), UtilizationOf(i))
              /\ \A j \in 1..(i - 1) : RLt(UtilizationOf(j), UtilizationOf(i))
    /\ \A k \in 1..Len(reports) :
          reports[k].bottleneck = reports[1].bottleneck
    /\ \A p \in Tasks :
          (pc[p] # "idle" /\ frame[p].stage = "proposed") =>
              LET m == frame[p].baseline_metrics
                  u(i) == Utilization(m, UtilizationOrder[i])
              IN  \E i \in 1..Len(UtilizationOrder) :
                      /\ frame[p].limiting_factor = UtilizationOrder[i]
                      /\ \A j \in 1..Len(UtilizationOrder) : RLe(u(j), u(i))
                      /\ \A j \in 1..(i - 1) : RLt(u(j), u(i))

\* identify_bottleneck has been called twice on readings where the second
\* and the third dimension tie for the maximum.
C16_Witness ==
    /\ Len(reports) = 2
    /\ Len(history) = 1
    /\ reports[2].bottleneck = dimensions[2].name
    /\ UtilizationOf(3) = UtilizationOf(2)
    /\ RLt(UtilizationOf(1), UtilizationOf(2))

=============================================================================
